---- MODULE Spec2Model ----
(***************************************************************************)
(* A model of fsc_convbond_all_in_one.py: the daily run (main), the date   *)
(* normaliser (parse_date, normalize_date), the market lookups with their  *)
(* two-venue fallback and per-run cache, the lot conversion, the trailing  *)
(* window (last20) and the length cap of the LINE notification.            *)
(*                                                                         *)
(* Conventions.  A Python Optional is a sequence of length at most one:    *)
(* None is <<>> and a present value x is <<x>>.  A Python str is a         *)
(* sequence of one-character strings.  A date is a record [y, m, d].       *)
(***************************************************************************)
EXTENDS Integers, Sequences, FiniteSets, TLC

VARIABLES
    pc,            \* position of the run / of the pure-function harness
    lineEnv,       \* LINE_CHANNEL_ACCESS_TOKEN and LINE_USER_ID are both set
    today,         \* dt.date.today() of the run
    ws,            \* the worksheet's data rows (row 2 onwards), cells A, E, F, G..L;
                   \* filled is history: which of the row's observations were written
    row,           \* the loop's row number (START_ROW based)
    cur,           \* locals of the current loop iteration
    latest_cache,  \* latest_cache: stripped code -> (close, vol)
    fetches,       \* history: the provider calls made so far for "latest", per ticker
    firstLatest,   \* history: the result of the first returned latest call, per code
    lastAt,        \* history: the get_tw_ohlcv_by_date call that has just returned
    lastLatest,    \* history: the get_tw_latest_ohlcv call that has just returned
    n_rows,        \* n_rows of fill_prices_for_file (Optional)
    report,        \* Optional: the rows saved in *_with_price.xlsx
    window,        \* Optional: [header, rows] saved in *_last20.xlsx
    sent,          \* the texts handed to send_line_message, in order
    logged,        \* the [ERROR] lines printed
    arg,           \* input of the pure-function harnesses
    res            \* output of the pure-function harnesses

vars == <<pc, lineEnv, today, ws, row, cur, latest_cache, fetches, firstLatest,
          lastAt, lastLatest, n_rows, report, window, sent, logged, arg, res>>

runVars == <<lineEnv, today, ws, row, cur, latest_cache, fetches, firstLatest,
             lastAt, lastLatest, n_rows, report, window, sent, logged>>

----------------------------------------------------------------------------
(* Optionals, strings *)

None == <<>>

Some(x) == <<x>>

IsNone(o) == o = <<>>

Min(a, b) == IF a <= b THEN a ELSE b

Max(a, b) == IF a >= b THEN a ELSE b

Digits == {"0", "1", "2", "3", "4", "5", "6", "7", "8", "9"}

DigitVal(c) ==
    CASE c = "0" -> 0 [] c = "1" -> 1 [] c = "2" -> 2 [] c = "3" -> 3
      [] c = "4" -> 4 [] c = "5" -> 5 [] c = "6" -> 6 [] c = "7" -> 7
      [] c = "8" -> 8 [] c = "9" -> 9

\* str.isdigit(): non-empty and every character a digit
IsDigitStr(s) == Len(s) > 0 /\ \A i \in 1..Len(s) : s[i] \in Digits

\* int(s) of a digit string
RECURSIVE ToInt(_)
ToInt(s) ==
    IF Len(s) = 0 THEN 0
    ELSE 10 * ToInt(SubSeq(s, 1, Len(s) - 1)) + DigitVal(s[Len(s)])

RECURSIVE LStrip(_)
LStrip(s) == IF Len(s) > 0 /\ s[1] = " " THEN LStrip(Tail(s)) ELSE s

RECURSIVE RStrip(_)
RStrip(s) ==
    IF Len(s) > 0 /\ s[Len(s)] = " " THEN RStrip(SubSeq(s, 1, Len(s) - 1)) ELSE s

\* str.strip()
Strip(s) == RStrip(LStrip(s))

\* s.split on any character of seps: the fields between separators
RECURSIVE SplitOn(_, _)
SplitOn(s, seps) ==
    IF \A i \in 1..Len(s) : s[i] \notin seps THEN <<s>>
    ELSE LET k == CHOOSE i \in 1..Len(s) :
                      s[i] \in seps /\ \A j \in 1..(i - 1) : s[j] \notin seps
         IN  <<SubSeq(s, 1, k - 1)>> \o SplitOn(SubSeq(s, k + 1, Len(s)), seps)

----------------------------------------------------------------------------
(* Calendar dates: dt.date(y, m, d) *)

IsLeap(y) == y % 4 = 0 /\ (y % 100 # 0 \/ y % 400 = 0)

DaysInMonth(y, m) ==
    IF m = 2 THEN (IF IsLeap(y) THEN 29 ELSE 28)
    ELSE IF m \in {4, 6, 9, 11} THEN 30 ELSE 31

\* dt.date(y, m, d) does not raise ValueError
ValidDate(y, m, d) ==
    /\ 1 <= y /\ y <= 9999
    /\ 1 <= m /\ m <= 12
    /\ 1 <= d /\ d <= DaysInMonth(y, m)

MkDate(y, m, d) == [y |-> y, m |-> m, d |-> d]

\* dt.date(y, m, d) inside try/except: the date, or None when it raises
TryDate(y, m, d) == IF ValidDate(y, m, d) THEN Some(MkDate(y, m, d)) ELSE None

\* d1 > d2 on dates
DateAfter(d1, d2) ==
    \/ d1.y > d2.y
    \/ d1.y = d2.y /\ d1.m > d2.m
    \/ d1.y = d2.y /\ d1.m = d2.m /\ d1.d > d2.d

----------------------------------------------------------------------------
(* parse_date *)

ROC_OFFSET == 1911

\* a cell value: None, a str, or a date/datetime
NoCell == [kind |-> "none"]

StrCell(s) == [kind |-> "str", s |-> s]

DateCell(d) == [kind |-> "date", date |-> d]

\* str(cell_value)
StrOf(cell) == IF cell.kind = "str" THEN cell.s ELSE <<>>

\* strptime's %m: 1[0-2]|0[1-9]|[1-9]
MatchesMonthField(f) ==
    /\ IsDigitStr(f) /\ Len(f) \in {1, 2}
    /\ ToInt(f) \in 1..12

\* strptime's %d: 3[01]|[12]\d|0[1-9]|[1-9]| [1-9]
MatchesDayField(f) ==
    \/ IsDigitStr(f) /\ Len(f) \in {1, 2} /\ ToInt(f) \in 1..31
    \/ Len(f) = 2 /\ f[1] = " " /\ f[2] \in (Digits \ {"0"})

DayFieldVal(f) == IF f[1] = " " THEN DigitVal(f[2]) ELSE ToInt(f)

\* the seven-digit ROC rule (the first try block)
ParseRoc7Mut(s) ==
    TryDate(ToInt(SubSeq(s, 1, 3)), ToInt(SubSeq(s, 4, 5)), ToInt(SubSeq(s, 6, 7)))

ParseRoc7(s) ==
    TryDate(ToInt(SubSeq(s, 1, 3)) + ROC_OFFSET,
            ToInt(SubSeq(s, 4, 5)), ToInt(SubSeq(s, 6, 7)))

\* strptime(s, "%Y%m%d") on an all-digit string of length 8
ParseGreg8(s) ==
    IF /\ MatchesMonthField(SubSeq(s, 5, 6))
       /\ MatchesDayField(SubSeq(s, 7, 8))
    THEN TryDate(ToInt(SubSeq(s, 1, 4)), ToInt(SubSeq(s, 5, 6)), ToInt(SubSeq(s, 7, 8)))
    ELSE None

\* ^(\d{3})[./-](\d{1,2})[./-](\d{1,2})$ and the date built from its groups
ParseRocSep(s) ==
    LET f == SplitOn(s, {".", "/", "-"})
    IN  IF /\ Len(f) = 3
           /\ IsDigitStr(f[1]) /\ Len(f[1]) = 3
           /\ IsDigitStr(f[2]) /\ Len(f[2]) \in {1, 2}
           /\ IsDigitStr(f[3]) /\ Len(f[3]) \in {1, 2}
        THEN TryDate(ToInt(f[1]) + ROC_OFFSET, ToInt(f[2]), ToInt(f[3]))
        ELSE None

\* %y: 69..99 are 1969..1999, 00..68 are 2000..2068
TwoDigitYear(n) == IF n >= 69 THEN 1900 + n ELSE 2000 + n

\* strptime(s, fmt) for the formats Y<sep>m<sep>d, with a year of ylen digits
ParseSepFmt(s, sep, ylen) ==
    LET f == SplitOn(s, {sep})
    IN  IF /\ Len(f) = 3
           /\ IsDigitStr(f[1]) /\ Len(f[1]) = ylen
           /\ MatchesMonthField(f[2])
           /\ MatchesDayField(f[3])
        THEN TryDate(IF ylen = 2 THEN TwoDigitYear(ToInt(f[1])) ELSE ToInt(f[1]),
                     ToInt(f[2]), DayFieldVal(f[3]))
        ELSE None

\* the loop over ("%Y-%m-%d", "%Y/%m/%d", "%y/%m/%d")
ParseCommon(s) ==
    IF ~IsNone(ParseSepFmt(s, "-", 4)) THEN ParseSepFmt(s, "-", 4)
    ELSE IF ~IsNone(ParseSepFmt(s, "/", 4)) THEN ParseSepFmt(s, "/", 4)
    ELSE ParseSepFmt(s, "/", 2)

\* the rules that follow the all-digit block
ParseAfterDigits(s) ==
    IF ~IsNone(ParseRocSep(s)) THEN ParseRocSep(s) ELSE ParseCommon(s)

\* the all-digit block of parse_date and what follows it
ParseStr(s) ==
    IF IsDigitStr(s) /\ Len(s) = 7 /\ ~IsNone(ParseRoc7(s)) THEN ParseRoc7(s)
    ELSE IF IsDigitStr(s) /\ Len(s) = 8 /\ ~IsNone(ParseGreg8(s)) THEN ParseGreg8(s)
    ELSE ParseAfterDigits(s)

parse_date(cell) ==
    IF cell.kind = "none" \/ (cell.kind = "str" /\ cell.s = <<>>) THEN None
    ELSE IF cell.kind = "date" THEN Some(cell.date)
    ELSE ParseStr(Strip(StrOf(cell)))

----------------------------------------------------------------------------
(* normalize_date (the sanity filter of fill_prices_for_file) *)

FLOOR_YEAR == 1990

normalize_dateMut(d, t) ==
    IF IsNone(d) THEN None
    ELSE IF d[1].y < FLOOR_YEAR THEN None
    ELSE d

normalize_date(d, t) ==
    IF IsNone(d) THEN None
    ELSE IF d[1].y < FLOOR_YEAR \/ DateAfter(d[1], t) THEN None
    ELSE d

----------------------------------------------------------------------------
(* The lot conversion: round(vol / 1000) if vol else None *)

LOT_SIZE == 1000

\* round(v / q) of Python 3 on a non-negative quotient: nearest, ties to even
RoundMut(v, q) == IF 2 * (v % q) >= q THEN (v \div q) + 1 ELSE v \div q

Round(v, q) ==
    IF 2 * (v % q) > q THEN (v \div q) + 1
    ELSE IF 2 * (v % q) < q THEN v \div q
    ELSE IF (v \div q) % 2 = 0 THEN v \div q ELSE (v \div q) + 1

\* recv_lots / eff_lots / today_lots from the share volume
Lots(vol) == IF IsNone(vol) \/ vol[1] = 0 THEN None ELSE Some(Round(vol[1], LOT_SIZE))

----------------------------------------------------------------------------
(* The market data provider (yf.download) and the two resolvers *)

\* what one yf.download call can do: return bars, return an empty frame, raise
Bars == {[kind |-> "bars", close |-> 10, vol |-> 2500],
         [kind |-> "bars", close |-> 20, vol |-> 0]}

Outcomes == Bars \cup {[kind |-> "empty", close |-> 0, vol |-> 0],
                       [kind |-> "error", close |-> 0, vol |-> 0]}

Ticker(code, venue) == [code |-> code, venue |-> venue]

\* a resolver's return: exc is TRUE when an exception leaves the function
Ret(close, vol, calls) == [exc |-> FALSE, close |-> close, vol |-> vol, calls |-> calls]

Raise(calls) == [exc |-> TRUE, close |-> None, vol |-> None, calls |-> calls]

Call(ticker, o) == [ticker |-> ticker, outcome |-> o.kind, close |-> o.close, vol |-> o.vol]

\* the body shared by get_yahoo_ohlcv_by_date and get_yahoo_latest_ohlcv after
\* their own first lines: try download / except -> (None, None) / empty -> (None, None)
YahooFetchMut(ticker, o) ==
    IF o.kind = "error" THEN Raise(<<Call(ticker, o)>>)
    ELSE IF o.kind = "empty" THEN Ret(None, None, <<Call(ticker, o)>>)
    ELSE Ret(Some(o.close), Some(o.vol), <<Call(ticker, o)>>)

YahooFetch(ticker, o) ==
    IF o.kind = "error" THEN Ret(None, None, <<Call(ticker, o)>>)
    ELSE IF o.kind = "empty" THEN Ret(None, None, <<Call(ticker, o)>>)
    ELSE Ret(Some(o.close), Some(o.vol), <<Call(ticker, o)>>)

get_yahoo_ohlcv_by_date(ticker, date, o) ==
    IF IsNone(date) THEN Ret(None, None, <<>>) ELSE YahooFetch(ticker, o)

get_yahoo_latest_ohlcv(ticker, o) == YahooFetch(ticker, o)

\* o1, o2: what the provider does on the .TW and on the .TWO call, if made
get_tw_ohlcv_by_dateMut(code, date, o1, o2) ==
    IF IsNone(date) THEN Ret(None, None, <<>>)
    ELSE LET r2 == get_yahoo_ohlcv_by_date(Ticker(Strip(code), "TWO"), date, o2)
             r1 == get_yahoo_ohlcv_by_date(Ticker(Strip(code), "TW"), date, o1)
         IN  IF r2.exc \/ ~IsNone(r2.close) THEN r2
             ELSE [r1 EXCEPT !.calls = r2.calls \o r1.calls]

get_tw_ohlcv_by_date(code, date, o1, o2) ==
    IF IsNone(date) THEN Ret(None, None, <<>>)
    ELSE LET r1 == get_yahoo_ohlcv_by_date(Ticker(Strip(code), "TW"), date, o1)
             r2 == get_yahoo_ohlcv_by_date(Ticker(Strip(code), "TWO"), date, o2)
         IN  IF r1.exc \/ ~IsNone(r1.close) THEN r1
             ELSE [r2 EXCEPT !.calls = r1.calls \o r2.calls]

\* cache[code] = (close, vol)
CachePutMut(cache, key, close, vol) ==
    IF IsNone(close) THEN cache
    ELSE [k \in DOMAIN cache \cup {key} |->
             IF k = key THEN [close |-> close, vol |-> vol] ELSE cache[k]]

CachePut(cache, key, close, vol) ==
    [k \in DOMAIN cache \cup {key} |->
        IF k = key THEN [close |-> close, vol |-> vol] ELSE cache[k]]

\* returns the resolver's return and the cache after the call
get_tw_latest_ohlcv(code, cache, o1, o2) ==
    LET key == Strip(code)
    IN  IF key \in DOMAIN cache
        THEN [ret |-> Ret(cache[key].close, cache[key].vol, <<>>), cache |-> cache]
        ELSE LET r1 == get_yahoo_latest_ohlcv(Ticker(key, "TW"), o1)
                 r2 == get_yahoo_latest_ohlcv(Ticker(key, "TWO"), o2)
                 r  == IF r1.exc \/ ~IsNone(r1.close) THEN r1
                       ELSE [r2 EXCEPT !.calls = r1.calls \o r2.calls]
             IN  IF r.exc THEN [ret |-> r, cache |-> cache]
                 ELSE [ret |-> r, cache |-> CachePut(cache, key, r.close, r.vol)]

----------------------------------------------------------------------------
(* The inputs of a run *)

MaxRows == 2

START_ROW == 2

WINDOW == 20

\* a digit string of width w for n (how the inputs below are written)
RECURSIVE DigitStr(_, _)
DigitStr(n, w) ==
    IF w = 0 THEN <<>>
    ELSE Append(DigitStr(n \div 10, w - 1),
                CHOOSE c \in Digits : DigitVal(c) = n % 10)

\* the clock of the runs explored
Todays == {MkDate(2024, 3, 1), MkDate(2024, 12, 31)}

\* column A (證券代號): empty, blank, a code, the same code padded, another code
Codes == {NoCell, StrCell(<<" ">>), StrCell(<<"7">>), StrCell(<<" ", "7">>),
          StrCell(<<"8">>)}

\* a received date of the rows of a sheet of several rows: 2024-01-15
RowDate == StrCell(DigitStr(1130115, 7))

\* columns E and F of the one-row sheets that vary the date encodings
RawDates ==
    {NoCell,
     StrCell(DigitStr(790101, 7)),                       \* 1990-01-01
     StrCell(DigitStr(781231, 7)),                       \* 1989-12-31
     StrCell(DigitStr(1130302, 7)),                      \* the day after today
     StrCell(DigitStr(1131301, 7)),                      \* month 13
     StrCell(DigitStr(20240230, 8)),                     \* 30 February
     StrCell(<<"1", "1", "3", "/", "3", "/", "1">>),     \* ROC with separators
     StrCell(<<"2", "0", "2", "5", "-", "0", "1", "-", "0", "1">>),
     StrCell(<<"6", "9", "/", "1", "2", "/", "3", "1">>),  \* %y: 1969
     DateCell(MkDate(2024, 12, 31)),
     DateCell(MkDate(2024, 2, 29))}

SheetRow(code, recv, eff) ==
    [code |-> code, recv_raw |-> recv, eff_raw |-> eff,
     recv_close |-> None, eff_close |-> None, today_close |-> None,
     recv_lots |-> None, eff_lots |-> None, today_lots |-> None,
     filled |-> {}]

\* the rows of a sheet of several rows: any code without dates, or a code with
\* a received date
RowSet == {SheetRow(c, NoCell, NoCell) : c \in Codes}
          \cup {SheetRow(StrCell(<<"7">>), RowDate, NoCell)}

\* the filtered filing table as the worksheet holds it: every record is a row
\* of the sheet (its company name cell is never empty)
Sheets ==
    UNION {[1..k -> RowSet] : k \in 0..MaxRows}
    \cup {<<SheetRow(StrCell(<<"7">>), a, b)>> : a \in RawDates, b \in RawDates}

NoCall == [code |-> <<>>, date |-> None, calls |-> <<>>, close |-> None, vol |-> None,
           hit |-> FALSE, exc |-> FALSE]

NoCur == [code |-> <<>>, recv_date |-> None, eff_date |-> None]

IdleRun ==
    /\ row = START_ROW
    /\ cur = NoCur
    /\ latest_cache = <<>>
    /\ fetches = <<>>
    /\ firstLatest = <<>>
    /\ lastAt = NoCall
    /\ lastLatest = NoCall
    /\ n_rows = None
    /\ report = None
    /\ window = None
    /\ sent = <<>>
    /\ logged = <<>>

Init ==
    /\ pc = "main"
    /\ lineEnv \in BOOLEAN
    /\ today \in Todays
    /\ ws \in Sheets
    /\ IdleRun
    /\ arg = None
    /\ res = None

----------------------------------------------------------------------------
(* main and generate_convbond_csv_for_today *)

\* send_line_message's guard on the environment: what the push API has received
Push(msgs, env, text) == IF env THEN Append(msgs, text) ELSE msgs

InfoMsg == [kind |-> "no_filings", n_rows |-> 0, entries |-> 0]

\* the download or the parse raises: caught, logged, None returned; main sends
\* the "no filings" text and returns
DownloadFails ==
    /\ pc = "main"
    /\ logged' = Append(logged, "download_failed")
    /\ sent' = Push(sent, lineEnv, InfoMsg)
    /\ pc' = "done"
    /\ UNCHANGED <<lineEnv, today, ws, row, cur, latest_cache, fetches, firstLatest,
                   lastAt, lastLatest, n_rows, report, window, arg, res>>

\* filter_conv_bond raises KeyError (no 案件類別 column), or a wanted column is
\* missing from a non-empty result: the exception leaves main
ColumnMissing ==
    /\ pc = "main"
    /\ \E col \in {"category", "wanted"} :
          /\ col = "wanted" => Len(ws) > 0
          /\ logged' = Append(logged, "KeyError")
    /\ pc' = "raised"
    /\ UNCHANGED <<lineEnv, today, ws, row, cur, latest_cache, fetches, firstLatest,
                   lastAt, lastLatest, n_rows, report, window, sent, arg, res>>

\* conv_df.empty: None returned; main sends the "no filings" text and returns
NoFilings ==
    /\ pc = "main"
    /\ Len(ws) = 0
    /\ sent' = Push(sent, lineEnv, InfoMsg)
    /\ pc' = "done"
    /\ UNCHANGED <<lineEnv, today, ws, row, cur, latest_cache, fetches, firstLatest,
                   lastAt, lastLatest, n_rows, report, window, logged, arg, res>>

\* the CSV is written; fill_prices_for_file starts: cache empty, row = START_ROW
StartFill ==
    /\ pc = "main"
    /\ Len(ws) > 0
    /\ row' = START_ROW
    /\ latest_cache' = <<>>
    /\ pc' = "loop"
    /\ UNCHANGED <<lineEnv, today, ws, cur, fetches, firstLatest,
                   lastAt, lastLatest, n_rows, report, window, sent, logged, arg, res>>

----------------------------------------------------------------------------
(* the row loop of fill_prices_for_file *)

\* ws[f"{COL}{r}"].value of a data row: None past the last row
CodeCell(sheet, r) == IF r - 1 \in 1..Len(sheet) THEN sheet[r - 1].code ELSE NoCell

\* code is None or str(code).strip() == ""
IsBlankCodeMut(cell) == cell.kind = "none"

IsBlankCode(cell) == cell.kind = "none" \/ Strip(StrOf(cell)) = <<>>

\* n_rows = (row - START_ROW) if row > START_ROW else 0
NRows(r) == IF r > START_ROW THEN r - START_ROW ELSE 0

LoopBreak ==
    /\ pc = "loop"
    /\ IsBlankCode(CodeCell(ws, row))
    /\ n_rows' = Some(NRows(row))
    /\ lastAt' = NoCall
    /\ lastLatest' = NoCall
    /\ pc' = "save"
    /\ UNCHANGED <<lineEnv, today, ws, row, cur, latest_cache, fetches, firstLatest,
                   report, window, sent, logged, arg, res>>

LoopRow ==
    /\ pc = "loop"
    /\ ~IsBlankCode(CodeCell(ws, row))
    /\ cur' = [code |-> StrOf(CodeCell(ws, row)),
               recv_date |-> normalize_date(parse_date(ws[row - 1].recv_raw), today),
               eff_date |-> normalize_date(parse_date(ws[row - 1].eff_raw), today)]
    /\ lastAt' = NoCall
    /\ lastLatest' = NoCall
    /\ pc' = "recv"
    /\ UNCHANGED <<lineEnv, today, ws, row, latest_cache, fetches, firstLatest,
                   n_rows, report, window, sent, logged, arg, res>>

AtCall(code, date, r) ==
    [code |-> code, date |-> date, calls |-> r.calls, close |-> r.close, vol |-> r.vol,
     hit |-> FALSE, exc |-> r.exc]

ResolveRecv ==
    /\ pc = "recv"
    /\ \E o1 \in Outcomes, o2 \in Outcomes :
          LET r == get_tw_ohlcv_by_date(cur.code, cur.recv_date, o1, o2)
          IN  /\ lastAt' = AtCall(cur.code, cur.recv_date, r)
              /\ IF r.exc
                 THEN pc' = "raised" /\ ws' = ws
                 ELSE /\ ws' = [ws EXCEPT ![row - 1].recv_close = r.close,
                                          ![row - 1].recv_lots = Lots(r.vol),
                                          ![row - 1].filled = @ \cup {"recv"}]
                      /\ pc' = "eff"
    /\ UNCHANGED <<lineEnv, today, row, cur, latest_cache, fetches, firstLatest,
                   lastLatest, n_rows, report, window, sent, logged, arg, res>>

ResolveEff ==
    /\ pc = "eff"
    /\ \E o1 \in Outcomes, o2 \in Outcomes :
          LET r == get_tw_ohlcv_by_date(cur.code, cur.eff_date, o1, o2)
          IN  /\ lastAt' = AtCall(cur.code, cur.eff_date, r)
              /\ IF r.exc
                 THEN pc' = "raised" /\ ws' = ws
                 ELSE /\ ws' = [ws EXCEPT ![row - 1].eff_close = r.close,
                                          ![row - 1].eff_lots = Lots(r.vol),
                                          ![row - 1].filled = @ \cup {"eff"}]
                      /\ pc' = "latest"
    /\ UNCHANGED <<lineEnv, today, row, cur, latest_cache, fetches, firstLatest,
                   lastLatest, n_rows, report, window, sent, logged, arg, res>>

\* the history of provider calls: one more fetch for each call made
RECURSIVE Count(_, _)
Count(f, calls) ==
    IF calls = <<>> THEN f
    ELSE LET t == calls[1].ticker
             g == [k \in DOMAIN f \cup {t} |->
                      IF k = t THEN (IF t \in DOMAIN f THEN f[t] + 1 ELSE 1) ELSE f[k]]
         IN  Count(g, Tail(calls))

ResolveLatest ==
    /\ pc = "latest"
    /\ \E o1 \in Outcomes, o2 \in Outcomes :
          LET g == get_tw_latest_ohlcv(cur.code, latest_cache, o1, o2)
              r == g.ret
              key == Strip(cur.code)
          IN  /\ lastLatest' = [AtCall(cur.code, None, r) EXCEPT
                                   !.hit = key \in DOMAIN latest_cache]
              /\ lastAt' = NoCall
              /\ fetches' = Count(fetches, r.calls)
              /\ latest_cache' = g.cache
              /\ IF r.exc
                 THEN pc' = "raised" /\ ws' = ws /\ row' = row /\ firstLatest' = firstLatest
                 ELSE /\ ws' = [ws EXCEPT ![row - 1].today_close = r.close,
                                          ![row - 1].today_lots = Lots(r.vol),
                                          ![row - 1].filled = @ \cup {"today"}]
                      /\ firstLatest' =
                            IF key \in DOMAIN firstLatest THEN firstLatest
                            ELSE (key :> [close |-> r.close, vol |-> r.vol]) @@ firstLatest
                      /\ row' = row + 1
                      /\ pc' = "loop"
    /\ UNCHANGED <<lineEnv, today, cur, n_rows, report, window, sent, logged,
                   arg, res>>

----------------------------------------------------------------------------
(* saving, the last-20 sheet, the summary *)

\* ws2.max_row of the saved sheet: the header row and every data row
MaxRow(sheet) == 1 + Len(sheet)

\* rows start_last20 .. last_row of the saved sheet, with their row numbers
Last20(sheet) ==
    LET last_row == MaxRow(sheet)
        start_last20 == Max(START_ROW, last_row - (WINDOW - 1))
    IN  [i \in 1..(last_row + 1 - start_last20) |->
            [r |-> start_last20 + i - 1, cells |-> sheet[start_last20 + i - 2]]]

Save ==
    /\ pc = "save"
    /\ report' = Some(ws)
    /\ window' = Some([header |-> TRUE, rows |-> Last20(ws)])
    /\ pc' = "summary"
    /\ UNCHANGED <<lineEnv, today, ws, row, cur, latest_cache, fetches, firstLatest,
                   lastAt, lastLatest, n_rows, sent, logged, arg, res>>

\* build_summary_message and send_line_message, the text kept symbolic
Notify ==
    /\ pc = "summary"
    /\ sent' = Push(sent, lineEnv,
                    [kind |-> "summary", n_rows |-> n_rows[1],
                     entries |-> Len(window[1].rows)])
    /\ pc' = "done"
    /\ UNCHANGED <<lineEnv, today, ws, row, cur, latest_cache, fetches, firstLatest,
                   lastAt, lastLatest, n_rows, report, window, logged, arg, res>>

Next ==
    \/ DownloadFails
    \/ ColumnMissing
    \/ NoFilings
    \/ StartFill
    \/ LoopBreak
    \/ LoopRow
    \/ ResolveRecv
    \/ ResolveEff
    \/ ResolveLatest
    \/ Save
    \/ Notify

Spec == Init /\ [][Next]_vars

\* the positions of the run
Positions == {"main", "loop", "recv", "eff", "latest", "save", "summary", "done", "raised"}

\* the run has not ended and its position changes.  Every step of Next changes
\* pc, and every state with pc outside {"done", "raised"} has a step of Next
\* (each such position has an action whose guard is true), so weak fairness
\* of Advance on pc is weak fairness of Next.
Advance == pc \notin {"done", "raised"} /\ pc' \in Positions /\ pc' # pc

\* the run is one synchronous thread of control: while it has not ended, it
\* takes its next step
FairSpec == Spec /\ WF_pc(Advance)

----------------------------------------------------------------------------
(* send_line_message: the cap on the text *)

LINE_BUDGET == 1800

\* the marker "\n...(" + 7 CJK characters + ")": 13 characters (the CJK
\* characters are written u1..u7)
Marker == <<"\n", ".", ".", ".", "(", "u1", "u2", "u3", "u4", "u5", "u6", "u7", ")">>

\* if len(text) > 1800: text = text[:1800] + marker
LineTextMut(text) ==
    IF Len(text) >= LINE_BUDGET THEN SubSeq(text, 1, LINE_BUDGET - 1) \o Marker ELSE text

LineText(text) ==
    IF Len(text) > LINE_BUDGET THEN SubSeq(text, 1, LINE_BUDGET) \o Marker ELSE text

----------------------------------------------------------------------------
(* The pure functions applied to drawn inputs.  The run's variables stay idle. *)

Idle == IdleRun /\ ws = <<>> /\ today = MkDate(2024, 3, 1)

\* --- parse_date on seven-digit strings YYYMMDD

MaxMM == 13

MaxDD == 32

\* ROC years: 1911, 1989, 1990, 2000 (leap), 2023, 2024 (leap), 2100 (not leap), 2910
RocYears == {0, 78, 79, 89, 112, 113, 189, 999}

SevenDigit(y, m, d) == DigitStr(y, 3) \o DigitStr(m, 2) \o DigitStr(d, 2)

InitDate ==
    /\ pc = "date_in"
    /\ lineEnv = FALSE
    /\ Idle
    /\ \E y \in RocYears, m \in 0..MaxMM, d \in 0..MaxDD : arg = SevenDigit(y, m, d)
    /\ res = None

ParseDate ==
    /\ pc = "date_in"
    /\ res' = parse_date(StrCell(arg))
    /\ pc' = "date_out"
    /\ UNCHANGED <<runVars, arg>>

SpecDate == InitDate /\ [][ParseDate]_vars

\* --- the lot conversion

MaxVol == 3600

InitLots ==
    /\ pc = "lots_in"
    /\ lineEnv = FALSE
    /\ Idle
    /\ arg \in {None} \cup {Some(v) : v \in 0..MaxVol}
    /\ res = None

ConvertLots ==
    /\ pc = "lots_in"
    /\ res' = Lots(arg)
    /\ pc' = "lots_out"
    /\ UNCHANGED <<runVars, arg>>

SpecLots == InitLots /\ [][ConvertLots]_vars

\* --- send_line_message

MaxTextLen == 1805

\* a text of n characters (its characters vary with the position)
TextOf(n) == [i \in 1..n |-> IF i % 3 = 0 THEN "\n" ELSE IF i % 3 = 1 THEN "a" ELSE "b"]

InitLine ==
    /\ pc = "line_in"
    /\ lineEnv \in BOOLEAN
    /\ Idle
    /\ \E n \in 0..MaxTextLen : arg = TextOf(n)
    /\ res = None

\* the early return when the environment is not set, else the text of the body
SendLine ==
    /\ pc = "line_in"
    /\ res' = IF lineEnv THEN Some(LineText(arg)) ELSE None
    /\ pc' = "line_out"
    /\ UNCHANGED <<runVars, arg>>

SpecLine == InitLine /\ [][SendLine]_vars

----------------------------------------------------------------------------
(* The claims *)

AllObs == {"recv", "eff", "today"}

\* the number of data rows before the first row whose code cell is blank
RECURSIVE RowsBeforeBlank(_)
RowsBeforeBlank(sheet) ==
    IF sheet = <<>> \/ sheet[1].code.kind = "none" \/ Strip(StrOf(sheet[1].code)) = <<>>
    THEN 0
    ELSE 1 + RowsBeforeBlank(Tail(sheet))

Abs(x) == IF x < 0 THEN -x ELSE x

\* C1: within a run, once a latest lookup for a code (compared after stripping)
\* has returned, a later lookup for that code fetches nothing on either venue
\* and returns and writes the first result, absent results included; no ticker
\* is fetched for "latest" more than once.
C1_LatestFetchedOnce ==
    /\ [][(/\ pc = "latest"
           /\ pc' # "latest"
           /\ Strip(cur.code) \in DOMAIN firstLatest)
          => (/\ fetches' = fetches
              /\ pc' = "loop"
              /\ lastLatest'.calls = <<>>
              /\ lastLatest'.close = firstLatest[Strip(cur.code)].close
              /\ lastLatest'.vol = firstLatest[Strip(cur.code)].vol
              /\ ws'[row - 1].today_close = firstLatest[Strip(cur.code)].close
              /\ ws'[row - 1].today_lots = Lots(firstLatest[Strip(cur.code)].vol))]_vars
    /\ [](\A t \in DOMAIN fetches : fetches[t] <= 1)

\* C1 witness: a second row with the same code, padded differently, has been
\* served from the cache after both venues failed for the first row.
C1_Witness ==
    /\ pc = "loop"
    /\ row = 4
    /\ ws[1].code # ws[2].code
    /\ lastLatest.hit
    /\ IsNone(lastLatest.close)
    /\ fetches = (Ticker(<<"7">>, "TW") :> 1) @@ (Ticker(<<"7">>, "TWO") :> 1)

\* C2: a dated lookup with an absent date calls no provider and is absent; with
\* a date it queries .TW first, queries .TWO only when .TW gave no bar, and
\* returns the first bar obtained, absent when neither venue gave one.
C2_AtProtocol ==
    LET c == lastAt.calls
        code == Strip(lastAt.code)
    IN  /\ IsNone(lastAt.date)
            => c = <<>> /\ IsNone(lastAt.close) /\ IsNone(lastAt.vol)
        /\ ~IsNone(lastAt.date)
            => /\ Len(c) \in {1, 2}
               /\ c[1].ticker = Ticker(code, "TW")
               /\ (Len(c) = 2) <=> (c[1].outcome # "bars")
               /\ Len(c) = 2 => c[2].ticker = Ticker(code, "TWO")
               /\ c[1].outcome = "bars"
                    => lastAt.close = Some(c[1].close) /\ lastAt.vol = Some(c[1].vol)
               /\ (Len(c) = 2 /\ c[2].outcome = "bars")
                    => lastAt.close = Some(c[2].close) /\ lastAt.vol = Some(c[2].vol)
               /\ (Len(c) = 2 /\ c[2].outcome # "bars")
                    => IsNone(lastAt.close) /\ IsNone(lastAt.vol)

\* C2 witness: the received-date lookup got nothing on .TW and a bar on .TWO.
C2_Witness ==
    /\ pc = "eff"
    /\ Len(lastAt.calls) = 2
    /\ lastAt.calls[1].outcome = "empty"
    /\ lastAt.calls[2].outcome = "bars"
    /\ lastAt.calls[2].ticker.venue = "TWO"
    /\ ws[row - 1].recv_close = Some(lastAt.calls[2].close)

\* C3: no resolver call ends in an error: a provider call that raises counts as
\* one that returned nothing (the other venue is tried, then the observation is
\* absent), the loop is never left by an exception, and the observations that
\* follow in the row are resolved.
C3_NoResolverError ==
    /\ ~lastAt.exc
    /\ ~lastLatest.exc
    /\ pc = "raised" => logged = <<"KeyError">>
    /\ \A L \in {lastAt, lastLatest} :
          /\ \A i \in 1..Len(L.calls) :
                L.calls[i].outcome = "error"
                    => IF i < Len(L.calls)
                       THEN L.calls[i + 1].ticker.venue = "TWO"
                       ELSE i = 2 /\ IsNone(L.close) /\ IsNone(L.vol)
    /\ pc = "eff" => ws[row - 1].filled = {"recv"}
    /\ pc = "latest" => ws[row - 1].filled = {"recv", "eff"}
    /\ pc \in {"loop", "save", "summary", "done"}
          => \A i \in 1..(row - START_ROW) : ws[i].filled = AllObs

\* C3 witness: both venues raised for the received date; the observation is
\* absent and the row goes on to its effective-date lookup.
C3_Witness ==
    /\ pc = "eff"
    /\ Len(lastAt.calls) = 2
    /\ lastAt.calls[1].outcome = "error"
    /\ lastAt.calls[2].outcome = "error"
    /\ IsNone(ws[row - 1].recv_close)
    /\ "recv" \in ws[row - 1].filled

\* C4 (as claimed): the last-20 sheet holds the header and exactly the last
\* min(20, n_rows) enriched rows, in order.
C4_WindowIsLastEnriched ==
    ~IsNone(window)
        => LET n == n_rows[1]
               k == Min(WINDOW, n)
               w == window[1]
           IN  /\ w.header
               /\ Len(w.rows) = k
               /\ \A i \in 1..k :
                     /\ w.rows[i].r = START_ROW + (n - k) + i - 1
                     /\ w.rows[i].cells = ws[n - k + i]
                     /\ w.rows[i].cells.filled = AllObs

\* C5: the text pushed is at most 1800 characters plus the marker: a longer
\* text is its first 1800 characters followed by the marker, a text of at most
\* 1800 characters is unchanged.
C5_NotificationCapped ==
    (pc = "line_out" /\ ~IsNone(res))
        => /\ Len(res[1]) <= LINE_BUDGET + Len(Marker)
           /\ Len(arg) > LINE_BUDGET
                => res[1] = [i \in 1..(LINE_BUDGET + Len(Marker)) |->
                                IF i <= LINE_BUDGET THEN arg[i]
                                ELSE Marker[i - LINE_BUDGET]]
           /\ Len(arg) <= LINE_BUDGET => res[1] = arg

\* C5 witness: a text of 1801 characters was cut and marked.
C5_Witness ==
    /\ pc = "line_out"
    /\ Len(arg) = LINE_BUDGET + 1
    /\ ~IsNone(res)
    /\ Len(res[1]) = LINE_BUDGET + Len(Marker)

\* C6 (as claimed): when the retrieval of the filing table fails the run ends
\* by an exception, writes no report and sends nothing; nothing else ends a
\* run by an exception.
C6_UpstreamFailureAborts ==
    /\ (\E i \in 1..Len(logged) : logged[i] = "download_failed")
          => (pc = "raised" /\ IsNone(report) /\ sent = <<>>)
    /\ pc = "raised" => (\E i \in 1..Len(logged) : logged[i] = "download_failed")

\* C7 (as claimed): 0 and None convert to None, 2500 converts to 3, any other
\* volume to an integer nearest to volume / 1000.
C7_LotsAsClaimed ==
    pc = "lots_out"
        => /\ IsNone(arg) => IsNone(res)
           /\ arg = Some(0) => IsNone(res)
           /\ arg = Some(2500) => res = Some(3)
           /\ (~IsNone(arg) /\ arg # Some(0) /\ arg # Some(2500))
                => /\ ~IsNone(res)
                   /\ 2 * Abs(LOT_SIZE * res[1] - arg[1]) <= LOT_SIZE

\* C7 (amended): 0 and None convert to None, 2500 converts to 2, any other
\* volume to the integer nearest to volume / 1000, a tie going to the even one.
C7_LotsHalfEven ==
    pc = "lots_out"
        => /\ IsNone(arg) => IsNone(res)
           /\ arg = Some(0) => IsNone(res)
           /\ arg = Some(2500) => res = Some(2)
           /\ (~IsNone(arg) /\ arg # Some(0))
                => /\ ~IsNone(res)
                   /\ 2 * Abs(LOT_SIZE * res[1] - arg[1]) <= LOT_SIZE
                   /\ 2 * Abs(LOT_SIZE * res[1] - arg[1]) = LOT_SIZE
                        => res[1] % 2 = 0

\* C7 witness: 2500 shares have been converted to 2 lots.
C7_Witness == pc = "lots_out" /\ arg = Some(2500) /\ res = Some(2)

\* the calendar, stated apart from the model of dt.date
IsCalendarDate(y, m, d) ==
    /\ m \in 1..12
    /\ d >= 1
    /\ m \in {1, 3, 5, 7, 8, 10, 12} => d <= 31
    /\ m \in {4, 6, 9, 11} => d <= 30
    /\ m = 2 => d <= (IF y % 400 = 0 \/ (y % 4 = 0 /\ y % 100 # 0) THEN 29 ELSE 28)

\* C8: a seven-digit string YYYMMDD parses to the date (YYY + 1911, MM, DD) when
\* that is a calendar date, and to None otherwise.
C8_Roc7Parsed ==
    pc = "date_out"
        => LET y == ToInt(SubSeq(arg, 1, 3)) + 1911
               m == ToInt(SubSeq(arg, 4, 5))
               d == ToInt(SubSeq(arg, 6, 7))
           IN  IF IsCalendarDate(y, m, d)
               THEN res = Some([y |-> y, m |-> m, d |-> d])
               ELSE IsNone(res)

\* C8 witness: "1130229" has been parsed to 29 February 2024.
C8_Witness ==
    /\ pc = "date_out"
    /\ arg = <<"1", "1", "3", "0", "2", "2", "9">>
    /\ res = Some([y |-> 2024, m |-> 2, d |-> 29])

InWindowOfToday(d) ==
    IsNone(d) \/ (/\ FLOOR_YEAR <= d[1].y
                  /\ d[1].y <= today.y
                  /\ ~DateAfter(d[1], today))

\* C9: every date handed to a dated lookup is absent or has 1990 <= year <=
\* the current year and is not after today; filtering it again changes nothing.
C9_DatesSane ==
    /\ InWindowOfToday(lastAt.date)
    /\ InWindowOfToday(cur.recv_date)
    /\ InWindowOfToday(cur.eff_date)
    /\ normalize_date(lastAt.date, today) = lastAt.date
    /\ normalize_date(cur.recv_date, today) = cur.recv_date
    /\ normalize_date(cur.eff_date, today) = cur.eff_date

\* C9 witness: a received date equal to today was kept and looked up, and an
\* effective date in the future was dropped.
C9_Witness ==
    /\ pc = "eff"
    /\ lastAt.date = Some(today)
    /\ ~IsNone(parse_date(ws[row - 1].eff_raw))
    /\ DateAfter(parse_date(ws[row - 1].eff_raw)[1], today)
    /\ IsNone(cur.eff_date)

\* C10: the row loop ends, and when it has ended exactly the rows before the
\* first blank code have been enriched (each of their three observations
\* written once, in place), whatever the lookups returned; the blank row and
\* the rows after it are untouched and no exception is raised.
C10_LoopEndsEnriched ==
    /\ (pc = "loop") ~> (pc = "save")
    /\ [](pc = "save"
            => /\ n_rows = Some(RowsBeforeBlank(ws))
               /\ row = START_ROW + RowsBeforeBlank(ws)
               /\ \A i \in 1..Len(ws) :
                     ws[i].filled = IF i <= RowsBeforeBlank(ws) THEN AllObs ELSE {})
    /\ [][(pc = "loop" /\ pc' = "raised") => FALSE]_vars
    /\ [][\A i \in 1..Len(ws) :
             /\ ws'[i].code = ws[i].code
             /\ ws[i].filled \subseteq ws'[i].filled
             /\ (i < row - 1) => ws'[i] = ws[i]]_vars

\* C10 witness: the loop has ended at a blank code in row 3; row 2 was enriched
\* with every lookup absent.
C10_Witness ==
    /\ pc = "save"
    /\ Len(ws) = 2
    /\ ws[2].code = StrCell(<<" ">>)
    /\ ws[1].filled = AllObs
    /\ IsNone(ws[1].recv_close) /\ IsNone(ws[1].eff_close) /\ IsNone(ws[1].today_close)
    /\ ws[2].filled = {}

====
